---- MODULE Spec2Model ----
(***************************************************************************)
(* Model of the mutual-fund NAV lambda (main.go): the Handler pipeline,    *)
(* its date validation, the inclusive range filter and the response        *)
(* builders.                                                               *)
(*                                                                         *)
(* Strings that the code parses (query parameters, point dates) are        *)
(* sequences of one-character strings.  Messages and bodies are sequences  *)
(* of text fragments: a fragment is either a single character or a run of  *)
(* text holding no double quote, backslash or control character.           *)
(* A time.Time is [day, sec]: days since 01-01-0001 and the second of the  *)
(* day (UTC).                                                              *)
(***************************************************************************)
EXTENDS Integers, Sequences, FiniteSets, TLC

\* Longest upstream NAV series the model explores.
MaxData == 3

----------------------------------------------------------------------------
\* Characters and numbers

Digits == {"0", "1", "2", "3", "4", "5", "6", "7", "8", "9"}

isDigit(s, i) == i <= Len(s) /\ s[i] \in Digits

DigitVal(c) ==
  CASE c = "0" -> 0 [] c = "1" -> 1 [] c = "2" -> 2 [] c = "3" -> 3
    [] c = "4" -> 4 [] c = "5" -> 5 [] c = "6" -> 6 [] c = "7" -> 7
    [] c = "8" -> 8 [] c = "9" -> 9

DigitChar(n) ==
  CASE n = 0 -> "0" [] n = 1 -> "1" [] n = 2 -> "2" [] n = 3 -> "3"
    [] n = 4 -> "4" [] n = 5 -> "5" [] n = 6 -> "6" [] n = 7 -> "7"
    [] n = 8 -> "8" [] n = 9 -> "9"

\* Decimal value of a sequence of digit characters (at most 4 are ever read).
RECURSIVE DecimalValue(_)
DecimalValue(s) ==
  IF s = <<>> THEN 0
  ELSE 10 * DecimalValue(SubSeq(s, 1, Len(s) - 1)) + DigitVal(s[Len(s)])

RECURSIVE StripZeros(_)
StripZeros(s) ==
  IF s # <<>> /\ s[1] = "0" THEN StripZeros(Tail(s)) ELSE s

\* a <= b for digit sequences without leading zeros, compared as numbers.
DigitsLeq(a, b) ==
  \/ Len(a) < Len(b)
  \/ /\ Len(a) = Len(b)
     /\ \/ a = b
        \/ \E i \in 1..Len(a) :
             /\ DigitVal(a[i]) < DigitVal(b[i])
             /\ \A j \in 1..(i - 1) : a[j] = b[j]

\* 1<<63 - 1 and 1<<63: the largest magnitudes of a 64-bit int.
MaxInt64Digits ==
  <<"9","2","2","3","3","7","2","0","3","6","8","5","4","7","7","5","8","0","7">>

MinInt64Digits ==
  <<"9","2","2","3","3","7","2","0","3","6","8","5","4","7","7","5","8","0","8">>

\* strconv.Atoi(value) returns no error: an optional sign, then one or more
\* decimal digits whose value fits a 64-bit int.
isValidInteger(value) ==
  LET signed == value # <<>> /\ value[1] \in {"+", "-"}
      neg    == value # <<>> /\ value[1] = "-"
      body   == IF signed THEN Tail(value) ELSE value
  IN /\ body # <<>>
     /\ \A i \in 1..Len(body) : body[i] \in Digits
     /\ DigitsLeq(StripZeros(body),
                  IF neg THEN MinInt64Digits ELSE MaxInt64Digits)

----------------------------------------------------------------------------
\* time.Time, time.Parse("02-01-2006", _) and Time.Format("02-01-2006")

ZeroTime == [day |-> 0, sec |-> 0]

IsZero(t) == t.day = 0 /\ t.sec = 0

Equal(t, u) == t.day = u.day /\ t.sec = u.sec

After(t, u) == t.day > u.day \/ (t.day = u.day /\ t.sec > u.sec)

Before(t, u) == t.day < u.day \/ (t.day = u.day /\ t.sec < u.sec)

isLeap(year) == year % 4 = 0 /\ (year % 100 # 0 \/ year % 400 = 0)

daysIn(month, year) ==
  IF month = 2 THEN (IF isLeap(year) THEN 29 ELSE 28)
  ELSE IF month \in {4, 6, 9, 11} THEN 30 ELSE 31

RECURSIVE daysBefore(_, _)
daysBefore(month, year) ==
  IF month = 1 THEN 0
  ELSE daysBefore(month - 1, year) + daysIn(month - 1, year)

\* Days from 01-01-0001 to the first day of the year (negative for year 0).
daysSinceEpoch(year) ==
  LET y == year - 1
  IN 365 * y + (y \div 4) - (y \div 100) + (y \div 400)

\* time.Date(year, month, day, 0, 0, 0, 0, UTC)
Date(year, month, day) ==
  [day |-> daysSinceEpoch(year) + daysBefore(month, year) + (day - 1),
   sec |-> 0]

\* time.Parse with layout "02-01-2006": two digits, "-", two digits, "-",
\* four digits, no text after them, month in 1..12 and a day of that month.
ParseTime(value) ==
  LET dayOk   == isDigit(value, 1) /\ isDigit(value, 2)
      sep1Ok  == Len(value) >= 3 /\ value[3] = "-"
      monOk   == isDigit(value, 4) /\ isDigit(value, 5)
      sep2Ok  == Len(value) >= 6 /\ value[6] = "-"
      yearOk  == /\ Len(value) >= 10
                 /\ \A i \in 7..10 : isDigit(value, i)
      noExtra == Len(value) = 10
      syntax  == dayOk /\ sep1Ok /\ monOk /\ sep2Ok /\ yearOk /\ noExtra
      day     == DecimalValue(SubSeq(value, 1, 2))
      month   == DecimalValue(SubSeq(value, 4, 5))
      year    == DecimalValue(SubSeq(value, 7, 10))
      ok      == /\ syntax
                 /\ month >= 1 /\ month <= 12
                 /\ day >= 1 /\ day <= daysIn(month, year)
  IN IF ok THEN [err |-> FALSE, t |-> Date(year, month, day)]
     ELSE [err |-> TRUE, t |-> ZeroTime]

\* The year and the day of the year of a time (Time.Date's cycle arithmetic).
absDate(t) ==
  LET d0   == t.day
      n400 == d0 \div 146097
      d1   == d0 - 146097 * n400
      q100 == d1 \div 36524
      n100 == q100 - (q100 \div 4)
      d2   == d1 - 36524 * n100
      n4   == d2 \div 1461
      d3   == d2 - 1461 * n4
      q1   == d3 \div 365
      n1   == q1 - (q1 \div 4)
      d4   == d3 - 365 * n1
  IN [year |-> 400 * n400 + 100 * n100 + 4 * n4 + n1 + 1, yday |-> d4]

MonthOf(year, yday) ==
  CHOOSE m \in 1..12 :
    daysBefore(m, year) <= yday /\ yday < daysBefore(m, year) + daysIn(m, year)

\* appendInt(b, n, width): n in decimal, zero-padded to width digits.
RECURSIVE appendInt(_, _)
appendInt(n, width) ==
  IF width = 0 THEN <<>>
  ELSE Append(appendInt(n \div 10, width - 1), DigitChar(n % 10))

\* t.Format("02-01-2006")
Format(t) ==
  LET ad    == absDate(t)
      month == MonthOf(ad.year, ad.yday)
      day   == ad.yday - daysBefore(month, ad.year) + 1
  IN appendInt(day, 2) \o <<"-">> \o appendInt(month, 2) \o <<"-">>
       \o appendInt(ad.year, 4)

----------------------------------------------------------------------------
\* encoding/json and fmt, over text fragments

Quote == "\""

Backslash == "\\"

\* The bytes json.Marshal writes for a string: quoted, with double quotes and
\* backslashes escaped.
RECURSIVE jsonEscape(_)
jsonEscape(s) ==
  IF s = <<>> THEN <<>>
  ELSE (IF s[1] \in {Quote, Backslash} THEN <<Backslash, s[1]>> ELSE <<s[1]>>)
         \o jsonEscape(Tail(s))

jsonString(s) == <<Quote>> \o jsonEscape(s) \o <<Quote>>

\* strconv.Itoa for a non-negative int.
RECURSIVE itoa(_)
itoa(n) ==
  IF n < 10 THEN <<DigitChar(n)>>
  ELSE Append(itoa(n \div 10), DigitChar(n % 10))

jsonKey(name) == <<Quote, name, Quote, ":">>

marshalMeta(meta) ==
  <<"{">> \o jsonKey("fund_house") \o jsonString(meta.FundHouse)
    \o <<",">> \o jsonKey("scheme_type") \o jsonString(meta.SchemeType)
    \o <<",">> \o jsonKey("scheme_category") \o jsonString(meta.SchemeCategory)
    \o <<",">> \o jsonKey("scheme_code") \o itoa(meta.SchemeCode)
    \o <<",">> \o jsonKey("scheme_name") \o jsonString(meta.SchemeName)
    \o <<"}">>

marshalDataPoint(p) ==
  <<"{">> \o jsonKey("date") \o jsonString(p.Date)
    \o <<",">> \o jsonKey("nav") \o jsonString(p.Nav) \o <<"}">>

RECURSIVE marshalPoints(_)
marshalPoints(data) ==
  IF data = <<>> THEN <<>>
  ELSE marshalDataPoint(data[1])
         \o (IF Len(data) > 1 THEN <<",">> ELSE <<>>)
         \o marshalPoints(Tail(data))

\* json.Marshal(response) for a Response: "period" is omitempty, a nil Data
\* slice is written as null.  Marshalling strings and ints cannot fail.
jsonMarshal(response) ==
  [err  |-> FALSE,
   body |-> <<"{">> \o jsonKey("meta") \o marshalMeta(response.Meta)
              \o (IF response.Period = <<>> THEN <<>>
                  ELSE <<",">> \o jsonKey("period")
                         \o jsonString(response.Period))
              \o <<",">> \o jsonKey("data")
              \o (IF response.Data = <<>> THEN <<"null">>
                  ELSE <<"[">> \o marshalPoints(response.Data) \o <<"]">>)
              \o <<"}">>]

----------------------------------------------------------------------------
\* The functions of main.go

baseURL == <<"https://api.mfapi.in/mf/">>

EmptyMeta ==
  [FundHouse |-> <<>>, SchemeType |-> <<>>, SchemeCategory |-> <<>>,
   SchemeCode |-> 0, SchemeName |-> <<>>]

\* Mutant: only the fund house is compared with its zero value.
metaIsZero_fundHouseOnly(meta) == meta.FundHouse = <<>>

\* fund.Meta == (struct{...}{}): field-by-field equality with the zero value.
metaIsZero(meta) == meta = EmptyMeta

\* createErrorResponse(statusCode, message)
createErrorResponse(statusCode, message) ==
  [StatusCode |-> statusCode,
   Body       |-> <<"{", Quote, "error", Quote, ":", " ", Quote>>
                    \o message \o <<Quote, "}">>,
   Headers    |-> "application/json"]

\* The APIGatewayProxyResponse Handler returns once the response is marshalled.
okResponse(jsonResponse) ==
  [StatusCode |-> 200, Body |-> jsonResponse, Headers |-> "application/json"]

NoResult == [StatusCode |-> 0, Body |-> <<>>, Headers |-> ""]

\* parseDates(startDate, endDate)
parseDates(startDate, endDate) ==
  LET s == ParseTime(startDate)
      e == ParseTime(endDate)
  IN IF s.err
     THEN [err |-> TRUE, msg |-> <<"invalid start date format. use dd-mm-yyyy">>,
           start |-> ZeroTime, end |-> ZeroTime]
     ELSE IF e.err
     THEN [err |-> TRUE, msg |-> <<"invalid end date format. use dd-mm-yyyy">>,
           start |-> ZeroTime, end |-> ZeroTime]
     ELSE [err |-> FALSE, msg |-> <<>>, start |-> s.t, end |-> e.t]

dateFailure(message) ==
  [err |-> TRUE, msg |-> message, start |-> ZeroTime, end |-> ZeroTime]

\* Mutant: the inverted-range check is made before the future-date check.
checkRange_invertedFirst(parsed, now) ==
  IF After(parsed.start, parsed.end)
  THEN dateFailure(<<"start date cannot be after end date">>)
  ELSE IF After(parsed.end, now)
  THEN dateFailure(<<"end date cannot be in the future">>)
  ELSE parsed

\* Mutant: the range is rejected unless start is before end.
checkRange_strictStart(parsed, now) ==
  IF After(parsed.end, now)
  THEN dateFailure(<<"end date cannot be in the future">>)
  ELSE IF ~Before(parsed.start, parsed.end)
  THEN dateFailure(<<"start date cannot be after end date">>)
  ELSE parsed

\* The checks made on a parsed pair of dates; now is time.Now().
checkRange(parsed, now) ==
  IF After(parsed.end, now)
  THEN dateFailure(<<"end date cannot be in the future">>)
  ELSE IF After(parsed.start, parsed.end)
  THEN dateFailure(<<"start date cannot be after end date">>)
  ELSE parsed

\* Mutant: a single missing date is treated as no dates at all.
validateAndParseDates_either(startDate, endDate, now) ==
  IF startDate # <<>> /\ endDate # <<>>
  THEN LET parsed == parseDates(startDate, endDate)
       IN IF parsed.err THEN parsed ELSE checkRange(parsed, now)
  ELSE IF startDate = <<>> \/ endDate = <<>>
  THEN [err |-> FALSE, msg |-> <<>>, start |-> ZeroTime, end |-> ZeroTime]
  ELSE dateFailure(
         <<"both start and end dates are required in the format dd-mm-yyyy">>)

\* validateAndParseDates(startDate, endDate); now is time.Now().
validateAndParseDates(startDate, endDate, now) ==
  IF startDate # <<>> /\ endDate # <<>>
  THEN LET parsed == parseDates(startDate, endDate)
       IN IF parsed.err THEN parsed ELSE checkRange(parsed, now)
  ELSE IF startDate = <<>> /\ endDate = <<>>
  THEN [err |-> FALSE, msg |-> <<>>, start |-> ZeroTime, end |-> ZeroTime]
  ELSE dateFailure(
         <<"both start and end dates are required in the format dd-mm-yyyy">>)

\* The condition under which filterData keeps a point whose date parsed.
keepPoint(date, start, end) ==
  \/ IsZero(start) /\ IsZero(end)
  \/ /\ Equal(date, start) \/ After(date, start)
     /\ Equal(date, end) \/ Before(date, end)

\* Mutant: the loop stops at the first point whose date does not parse.
RECURSIVE filterData_break(_, _, _)
filterData_break(data, start, end) ==
  IF data = <<>> THEN <<>>
  ELSE LET item == data[1]
           d    == ParseTime(item.Date)
       IN IF d.err THEN <<>>
          ELSE IF keepPoint(d.t, start, end)
          THEN <<[Date |-> item.Date, Nav |-> item.Nav]>>
                 \o filterData_break(Tail(data), start, end)
          ELSE filterData_break(Tail(data), start, end)

\* filterData(data, start, end)
RECURSIVE filterData(_, _, _)
filterData(data, start, end) ==
  IF data = <<>> THEN <<>>
  ELSE LET item == data[1]
           d    == ParseTime(item.Date)
           rest == filterData(Tail(data), start, end)
       IN IF d.err THEN rest
          ELSE IF keepPoint(d.t, start, end)
          THEN <<[Date |-> item.Date, Nav |-> item.Nav]>> \o rest
          ELSE rest

\* The period label of createSuccessResponse.
periodLabel(start, end) ==
  IF ~IsZero(start) /\ ~IsZero(end)
  THEN Format(start) \o <<" to ">> \o Format(end)
  ELSE <<>>

\* createSuccessResponse(meta, data, start, end)
createSuccessResponse(meta, data, start, end) ==
  [Meta |-> meta, Period |-> periodLabel(start, end), Data |-> data]

\* The error of http.Get: a *url.Error, "Get <quoted url>: <cause>".
urlError(url, cause) == <<"Get ", Quote>> \o url \o <<Quote, ": ">> \o cause

\* fetchFundData(mutualFundID) for one outcome of the upstream call.
fetchFundData(mutualFundID, outcome) ==
  LET url == baseURL \o mutualFundID
  IN CASE outcome.kind = "fetchError" ->
            [err |-> TRUE,
             msg |-> <<"error fetching data from API: ">>
                       \o urlError(url, outcome.cause),
             fund |-> [Meta |-> EmptyMeta, Data |-> <<>>]]
       [] outcome.kind = "decodeError" ->
            [err |-> TRUE,
             msg |-> <<"error decoding API response: ">> \o outcome.cause,
             fund |-> [Meta |-> EmptyMeta, Data |-> <<>>]]
       [] outcome.kind = "ok" ->
            [err |-> FALSE, msg |-> <<>>,
             fund |-> [Meta |-> outcome.meta, Data |-> outcome.data]]

----------------------------------------------------------------------------
\* Requests and upstream outcomes explored

\* mutualFundID values: absent, integers (plain, signed) and non-integers
\* (letters, a trailing letter, one past the largest 64-bit int).
FundIDs ==
  { <<>>,
    <<"1","1","9","5","9","8">>,
    <<"-","5">>,
    <<"a","b","c">>,
    <<"1","2","a">>,
    MinInt64Digits }

D_31_12_0000 == <<"3","1","-","1","2","-","0","0","0","0">>
D_01_01_0001 == <<"0","1","-","0","1","-","0","0","0","1">>
D_01_01_2023 == <<"0","1","-","0","1","-","2","0","2","3">>
D_02_01_2023 == <<"0","2","-","0","1","-","2","0","2","3">>
D_15_01_2023 == <<"1","5","-","0","1","-","2","0","2","3">>
D_31_01_2023 == <<"3","1","-","0","1","-","2","0","2","3">>
D_28_02_2023 == <<"2","8","-","0","2","-","2","0","2","3">>
D_01_03_2023 == <<"0","1","-","0","3","-","2","0","2","3">>
D_29_02_2023 == <<"2","9","-","0","2","-","2","0","2","3">>
D_1_1_2023   == <<"1","-","1","-","2","0","2","3">>
D_2023_01_15 == <<"2","0","2","3","-","0","1","-","1","5">>

\* start and end values: absent, well-formed dates from the first
\* representable days up to days after the request, and malformed ones (not
\* zero-padded, a day that the month does not have).
DateParams ==
  { <<>>, D_31_12_0000, D_01_01_0001, D_01_01_2023, D_31_01_2023,
    D_28_02_2023, D_01_03_2023, D_1_1_2023, D_29_02_2023 }

\* time.Now(): the request is made on 31-01-2023, at midnight or at noon UTC.
Today == Date(2023, 1, 31)

Nows == { [day |-> Today.day, sec |-> 0], [day |-> Today.day, sec |-> 43200] }

Metas ==
  { EmptyMeta,
    [FundHouse |-> <<"HDFC Mutual Fund">>, SchemeType |-> <<"Open Ended">>,
     SchemeCategory |-> <<"Equity">>, SchemeCode |-> 119598,
     SchemeName |-> <<"Fund ", Quote, "A", Quote, " Direct">>],
    [FundHouse |-> <<>>, SchemeType |-> <<>>, SchemeCategory |-> <<>>,
     SchemeCode |-> 7, SchemeName |-> <<>>] }

Items ==
  { [Date |-> D_15_01_2023, Nav |-> <<"10.5">>],
    [Date |-> D_28_02_2023, Nav |-> <<"11.0">>],
    [Date |-> D_02_01_2023, Nav |-> <<"9.75">>],
    [Date |-> D_01_01_2023, Nav |-> <<"9.5">>],
    [Date |-> D_2023_01_15, Nav |-> <<"7.0">>] }

DataSeqs == UNION { [1..n -> Items] : n \in 0..MaxData }

Outcomes ==
  { [kind |-> "fetchError", cause |-> c] :
      c \in { <<"dial tcp: lookup api.mfapi.in: no such host">>,
              <<"context deadline exceeded">> } }
  \cup
  { [kind |-> "decodeError", cause |-> c] :
      c \in { <<"unexpected EOF">>,
              <<"invalid character '", Quote, "' after object key">> } }
  \cup
  { [kind |-> "ok", meta |-> m, data |-> d] : m \in Metas, d \in DataSeqs }

NoOutcome == [kind |-> "none"]

----------------------------------------------------------------------------
\* Handler, one action per gate

VARIABLES
  pc,            \* position in Handler
  request,       \* the three query parameters
  now,           \* the value time.Now() returned in validateAndParseDates
  start, end,    \* Handler's start and end
  upstream,      \* what the upstream call returned, NoOutcome before it
  fund,          \* Handler's fund
  filteredData,  \* Handler's filteredData
  response,      \* Handler's response
  result,        \* the APIGatewayProxyResponse returned
  gates          \* the gates run so far, in order

vars ==
  <<pc, request, now, start, end, upstream, fund, filteredData, response,
    result, gates>>

ZeroFund == [Meta |-> EmptyMeta, Data |-> <<>>]

ZeroResponse == [Meta |-> EmptyMeta, Period |-> <<>>, Data |-> <<>>]

Init ==
  /\ pc = "idle"
  /\ request = [mutualFundID |-> <<>>, start |-> <<>>, end |-> <<>>]
  /\ now = ZeroTime
  /\ start = ZeroTime
  /\ end = ZeroTime
  /\ upstream = NoOutcome
  /\ fund = ZeroFund
  /\ filteredData = <<>>
  /\ response = ZeroResponse
  /\ result = NoResult
  /\ gates = <<>>

\* The runtime invokes Handler with a request.
Invoke ==
  /\ pc = "idle"
  /\ \E id \in FundIDs, s \in DateParams, e \in DateParams :
       request' = [mutualFundID |-> id, start |-> s, end |-> e]
  /\ pc' = "parser"
  /\ UNCHANGED <<now, start, end, upstream, fund, filteredData, response,
                 result, gates>>

\* Mutant: the integer check is missing.
checkFundID_noIntegerCheck(mutualFundID) ==
  IF mutualFundID = <<>>
  THEN createErrorResponse(400, <<"mutualFundID query parameter is required">>)
  ELSE NoResult

\* The result of the mutualFundID checks: an error response, or NoResult.
checkFundID(mutualFundID) ==
  IF mutualFundID = <<>>
  THEN createErrorResponse(400, <<"mutualFundID query parameter is required">>)
  ELSE IF ~isValidInteger(mutualFundID)
  THEN createErrorResponse(400, <<"mutualFundID must be an integer">>)
  ELSE NoResult

\* The status Handler gives a failure of each gate.
dateErrorResponse(message) == createErrorResponse(400, message)

\* Mutant: an upstream failure is answered with a client-error status.
fetchErrorResponse_400(message) == createErrorResponse(400, message)

fetchErrorResponse(message) == createErrorResponse(500, message)

metaErrorResponse == createErrorResponse(400, <<"Invalid mutualFundID">>)

marshalErrorResponse ==
  createErrorResponse(500, <<"error creating JSON response">>)

HandlerParser ==
  /\ pc = "parser"
  /\ gates' = Append(gates, "Parser")
  /\ LET r == checkFundID(request.mutualFundID)
     IN IF r # NoResult
        THEN result' = r /\ pc' = "done"
        ELSE result' = result /\ pc' = "validate"
  /\ UNCHANGED <<request, now, start, end, upstream, fund, filteredData,
                 response>>

HandlerValidateDates ==
  /\ pc = "validate"
  /\ gates' = Append(gates, "RangeValidation")
  /\ \E t \in Nows :
       /\ now' = t
       /\ LET v == validateAndParseDates(request.start, request.end, t)
          IN IF v.err
             THEN /\ result' = dateErrorResponse(v.msg)
                  /\ pc' = "done"
                  /\ UNCHANGED <<start, end>>
             ELSE /\ start' = v.start
                  /\ end' = v.end
                  /\ pc' = "fetch"
                  /\ UNCHANGED result
  /\ UNCHANGED <<request, upstream, fund, filteredData, response>>

HandlerFetch ==
  /\ pc = "fetch"
  /\ gates' = Append(gates, "Fetcher")
  /\ \E o \in Outcomes :
       /\ upstream' = o
       /\ LET f == fetchFundData(request.mutualFundID, o)
          IN IF f.err
             THEN /\ result' = fetchErrorResponse(f.msg)
                  /\ pc' = "done"
                  /\ UNCHANGED fund
             ELSE /\ fund' = f.fund
                  /\ pc' = "metaCheck"
                  /\ UNCHANGED result
  /\ UNCHANGED <<request, now, start, end, filteredData, response>>

HandlerMetaCheck ==
  /\ pc = "metaCheck"
  /\ gates' = Append(gates, "MetadataCheck")
  /\ IF metaIsZero(fund.Meta)
     THEN result' = metaErrorResponse /\ pc' = "done"
     ELSE result' = result /\ pc' = "filter"
  /\ UNCHANGED <<request, now, start, end, upstream, fund, filteredData,
                 response>>

HandlerFilter ==
  /\ pc = "filter"
  /\ gates' = Append(gates, "Filter")
  /\ filteredData' = filterData(fund.Data, start, end)
  /\ pc' = "build"
  /\ UNCHANGED <<request, now, start, end, upstream, fund, response, result>>

HandlerBuild ==
  /\ pc = "build"
  /\ gates' = Append(gates, "Build")
  /\ response' = createSuccessResponse(fund.Meta, filteredData, start, end)
  /\ LET j == jsonMarshal(response')
     IN result' = IF j.err THEN marshalErrorResponse ELSE okResponse(j.body)
  /\ pc' = "done"
  /\ UNCHANGED <<request, now, start, end, upstream, fund, filteredData>>

Next ==
  \/ Invoke
  \/ HandlerParser
  \/ HandlerValidateDates
  \/ HandlerFetch
  \/ HandlerMetaCheck
  \/ HandlerFilter
  \/ HandlerBuild

Spec == Init /\ [][Next]_vars

----------------------------------------------------------------------------
\* A recogniser of JSON text over fragments (RFC 8259 values; numbers are
\* unsigned integers, the only ones the handler writes)

Escapable == {Quote, Backslash, "/", "b", "f", "n", "r", "t"}

ControlChars == {"\n", "\r", "\t"}

RECURSIVE SkipWs(_, _)
SkipWs(s, i) ==
  IF i <= Len(s) /\ s[i] = " " THEN SkipWs(s, i + 1) ELSE i

\* i is the position after an opening quote; the position after the closing
\* quote, or 0 when the string is not well formed.
RECURSIVE ScanString(_, _)
ScanString(s, i) ==
  IF i > Len(s) THEN 0
  ELSE IF s[i] = Quote THEN i + 1
  ELSE IF s[i] = Backslash
  THEN (IF i + 1 <= Len(s) /\ s[i + 1] \in Escapable
        THEN ScanString(s, i + 2) ELSE 0)
  ELSE IF s[i] \in ControlChars THEN 0
  ELSE ScanString(s, i + 1)

RECURSIVE ScanDigits(_, _)
ScanDigits(s, i) ==
  IF i <= Len(s) /\ s[i] \in Digits THEN ScanDigits(s, i + 1) ELSE i

\* The position after the value that starts at i, or 0 when there is none.
RECURSIVE ScanValue(_, _)
RECURSIVE ScanMembers(_, _)
RECURSIVE ScanElements(_, _)
ScanValue(s, i) ==
  IF i > Len(s) THEN 0
  ELSE IF s[i] = Quote THEN ScanString(s, i + 1)
  ELSE IF s[i] \in Digits
  THEN (IF s[i] = "0" /\ isDigit(s, i + 1) THEN 0 ELSE ScanDigits(s, i))
  ELSE IF s[i] \in {"null", "true", "false"} THEN i + 1
  ELSE IF s[i] = "{"
  THEN (LET j == SkipWs(s, i + 1)
        IN IF j <= Len(s) /\ s[j] = "}" THEN j + 1 ELSE ScanMembers(s, j))
  ELSE IF s[i] = "["
  THEN (LET j == SkipWs(s, i + 1)
        IN IF j <= Len(s) /\ s[j] = "]" THEN j + 1 ELSE ScanElements(s, j))
  ELSE 0

ScanMembers(s, i) ==
  IF i > Len(s) \/ s[i] # Quote THEN 0
  ELSE LET k == ScanString(s, i + 1)
           c == SkipWs(s, k)
           v == IF k = 0 \/ c > Len(s) \/ s[c] # ":" THEN 0
                ELSE ScanValue(s, SkipWs(s, c + 1))
           e == SkipWs(s, v)
       IN IF v = 0 \/ e > Len(s) THEN 0
          ELSE IF s[e] = "}" THEN e + 1
          ELSE IF s[e] = "," THEN ScanMembers(s, SkipWs(s, e + 1))
          ELSE 0

ScanElements(s, i) ==
  LET v == ScanValue(s, i)
      e == SkipWs(s, v)
  IN IF v = 0 \/ e > Len(s) THEN 0
     ELSE IF s[e] = "]" THEN e + 1
     ELSE IF s[e] = "," THEN ScanElements(s, SkipWs(s, e + 1))
     ELSE 0

WellFormedJSON(s) ==
  LET e == ScanValue(s, SkipWs(s, 1))
  IN e # 0 /\ SkipWs(s, e) = Len(s) + 1

----------------------------------------------------------------------------
\* Properties

Done == pc = "done"

ErrorBody(text) ==
  <<"{", Quote, "error", Quote, ":", " ", Quote, text, Quote, "}">>

IsFailure(status, text) ==
  Done /\ result.StatusCode = status /\ result.Body = ErrorBody(text)

HasIntegerID == isValidInteger(request.mutualFundID)

NoDates == request.start = <<>> /\ request.end = <<>>

BothDates == request.start # <<>> /\ request.end # <<>>

OneDate == ~NoDates /\ ~BothDates

BothParse ==
  BothDates /\ ~ParseTime(request.start).err /\ ~ParseTime(request.end).err

StartDay == ParseTime(request.start).t.day

EndDay == ParseTime(request.end).t.day

\* The date gate has run (time.Now() has been read).
PastValidation == pc \notin {"idle", "parser", "validate"}

FetchedOk == upstream.kind = "ok"

AllFieldsDefault(meta) ==
  /\ meta.FundHouse = <<>>
  /\ meta.SchemeType = <<>>
  /\ meta.SchemeCategory = <<>>
  /\ meta.SchemeCode = 0
  /\ meta.SchemeName = <<>>

Parseable(item) == ~ParseTime(item.Date).err

\* The subsequence of the upstream series whose dates parse and lie in
\* [lo, hi], days both included.
InRange(data, lo, hi) ==
  LET Keep(item) ==
        /\ Parseable(item)
        /\ lo <= ParseTime(item.Date).t.day
        /\ ParseTime(item.Date).t.day <= hi
  IN SelectSeq(data, Keep)

AllParseable(data) == SelectSeq(data, Parseable)

Unparseable(data) == Cardinality({i \in 1..Len(data) : ~Parseable(data[i])})

RangeAccepted ==
  BothParse /\ StartDay <= EndDay /\ ~After(ParseTime(request.end).t, now)

Success == Done /\ result.StatusCode = 200

\* C1: with an integer fund id, a successful fetch with non-empty metadata and
\* an accepted range, the returned data is exactly the upstream points whose
\* date parses and lies in [start, end], both ends included, in upstream
\* order.
C1_InclusiveRange ==
  (Done /\ HasIntegerID /\ FetchedOk /\ RangeAccepted
        /\ ~AllFieldsDefault(upstream.meta))
    => /\ result.StatusCode = 200
       /\ response.Data = InRange(upstream.data, StartDay, EndDay)

\* C2: with an integer fund id, no dates and a successful fetch with non-empty
\* metadata, the result is a Success whose data is the upstream series without
\* its unparseable-date points, in order, and whose period is absent.
C2_NoDatesPassThrough ==
  (Done /\ HasIntegerID /\ NoDates /\ FetchedOk
        /\ ~AllFieldsDefault(upstream.meta))
    => /\ result.StatusCode = 200
       /\ response.Data = AllParseable(upstream.data)
       /\ Len(response.Data) = Len(upstream.data) - Unparseable(upstream.data)
       /\ response.Period = <<>>
       /\ result.Body = jsonMarshal([Meta |-> upstream.meta, Period |-> <<>>,
                                     Data |-> AllParseable(upstream.data)]).body

C2_Witness ==
  /\ Success /\ NoDates
  /\ Unparseable(upstream.data) > 0
  /\ Len(response.Data) > 0
  /\ Len(response.Data) < Len(upstream.data)

\* C3: in a Success the period is present exactly when a range was supplied
\* and accepted, and is then "<start> to <end>" with the accepted dates.
C3_PeriodLabel ==
  Success =>
    /\ (response.Period # <<>>) <=> RangeAccepted
    /\ RangeAccepted =>
         response.Period = request.start \o <<" to ">> \o request.end

\* C4: no Success carries empty metadata; a fetch that decodes to all-default
\* metadata ends in 400 "Invalid mutualFundID" whatever the data, and other
\* metadata is never rejected by this check.
C4_EmptyMetadata ==
  /\ Success => ~AllFieldsDefault(response.Meta)
  /\ (Done /\ FetchedOk) =>
       (AllFieldsDefault(upstream.meta)
          <=> IsFailure(400, "Invalid mutualFundID"))
  /\ (Done /\ FetchedOk /\ ~AllFieldsDefault(upstream.meta)) =>
       result.StatusCode = 200

C4_Witness ==
  /\ IsFailure(400, "Invalid mutualFundID")
  /\ FetchedOk
  /\ AllFieldsDefault(upstream.meta)
  /\ Len(upstream.data) > 0

\* C5: with an integer fund id and exactly one of start and end given, the
\* request ends in 400 "both start and end dates are required in the format
\* dd-mm-yyyy", whichever is given and whether or not it is well formed; the
\* upstream is never asked.
C5_IncompleteRange ==
  (HasIntegerID /\ OneDate /\ PastValidation) =>
    /\ IsFailure(400,
         "both start and end dates are required in the format dd-mm-yyyy")
    /\ upstream = NoOutcome

C5_Witness ==
  /\ Done /\ HasIntegerID
  /\ request.start = <<>>
  /\ request.end = D_1_1_2023
  /\ result.StatusCode = 400

\* C6: with an integer fund id and two well-formed dates, an end date after
\* the current date ends in 400 "end date cannot be in the future", also when
\* start is after end; an end date equal to the current date is not rejected
\* as future.
C6_FutureEnd ==
  (HasIntegerID /\ BothParse /\ PastValidation) =>
    /\ EndDay > now.day => IsFailure(400, "end date cannot be in the future")
    /\ EndDay = now.day => ~IsFailure(400, "end date cannot be in the future")

C6_Witness ==
  /\ HasIntegerID /\ BothParse /\ Done
  /\ StartDay > EndDay
  /\ EndDay > now.day
  /\ IsFailure(400, "end date cannot be in the future")

\* C7 as stated: with an integer fund id and two well-formed dates, a start
\* after the end always ends in 400 "start date cannot be after end date".
C7_InvertedAlways ==
  (HasIntegerID /\ BothParse /\ PastValidation /\ StartDay > EndDay) =>
    IsFailure(400, "start date cannot be after end date")

\* C7 amended: with an integer fund id and two well-formed dates whose end is
\* not after the current moment, a start after the end ends in 400 "start
\* date cannot be after end date", and start equal to end passes the date
\* gate.
C7_Inverted ==
  (HasIntegerID /\ BothParse /\ PastValidation
                /\ ~After(ParseTime(request.end).t, now)) =>
    /\ StartDay > EndDay =>
         IsFailure(400, "start date cannot be after end date")
    /\ StartDay = EndDay =>
         /\ Len(gates) > 2 \/ pc = "fetch"
         /\ start = ParseTime(request.start).t
         /\ end = start

C7_Witness ==
  /\ HasIntegerID /\ BothParse /\ Done
  /\ StartDay > EndDay
  /\ ~After(ParseTime(request.end).t, now)
  /\ IsFailure(400, "start date cannot be after end date")

ClientFailure ==
  \/ request.mutualFundID = <<>>
  \/ ~HasIntegerID
  \/ OneDate
  \/ BothDates /\ ~BothParse
  \/ BothParse /\ After(ParseTime(request.end).t, now)
  \/ BothParse /\ StartDay > EndDay
  \/ FetchedOk /\ AllFieldsDefault(upstream.meta)

UpstreamFailure == upstream.kind \in {"fetchError", "decodeError"}

\* C8: every client-input failure ends in status 400, every upstream fetch or
\* decode failure in 500, and 200 is returned only when no gate failed, with
\* the marshalled response as its body; there is no other status.
C8_StatusByFailureKind ==
  Done =>
    /\ result.StatusCode \in {200, 400, 500}
    /\ result.StatusCode = 400 <=> ClientFailure
    /\ result.StatusCode = 500 <=> UpstreamFailure
    /\ result.StatusCode = 200 <=> (~ClientFailure /\ ~UpstreamFailure)
    /\ result.StatusCode = 200 <=> (Len(result.Body) < 3 \/ result.Body[3] # "error")
    /\ result.Headers = "application/json"

C8_Witness ==
  /\ Done /\ NoDates
  /\ upstream.kind = "fetchError"
  /\ result.StatusCode = 500
  /\ SubSeq(result.Body, 1, 8) =
       <<"{", Quote, "error", Quote, ":", " ", Quote,
         "error fetching data from API: ">>

\* C9: the body returned is always a well-formed JSON document and never
\* empty.
C9_WellFormedBody ==
  Done => (result.Body # <<>> /\ WellFormedJSON(result.Body))

SpecOrder ==
  <<"Parser", "Fetcher", "MetadataCheck", "RangeValidation", "Filter", "Build">>

CodeOrder ==
  <<"Parser", "RangeValidation", "Fetcher", "MetadataCheck", "Filter", "Build">>

IsPrefix(a, b) == Len(a) <= Len(b) /\ a = SubSeq(b, 1, Len(a))

\* C10 as stated: the gates run in the order Parser, Fetcher, Metadata check,
\* Range validation, Filter, Build.
C10_SpecOrder == IsPrefix(gates, SpecOrder)

\* The gates a request must pass before the first one that fails it.
GatesToRun ==
  IF ~HasIntegerID THEN 1
  ELSE IF validateAndParseDates(request.start, request.end, now).err THEN 2
  ELSE IF UpstreamFailure THEN 3
  ELSE IF AllFieldsDefault(upstream.meta) THEN 4
  ELSE 6

\* C10 amended: the gates run in the order Parser, Range validation, Fetcher,
\* Metadata check, Filter, Build, each at most once; the first failing gate
\* ends the request with its own Failure and nothing runs after it; a
\* request is a Success only after all six.
C10_GateOrder ==
  /\ IsPrefix(gates, CodeOrder)
  /\ Done =>
       /\ ~ENABLED Next
       /\ Len(gates) = GatesToRun
       /\ result.StatusCode = 200 <=> gates = CodeOrder
       /\ Len(gates) < 3 => upstream = NoOutcome
       /\ Len(gates) = 1 => result.StatusCode = 400
       /\ Len(gates) = 2 =>
            result = createErrorResponse(400,
              validateAndParseDates(request.start, request.end, now).msg)
       /\ Len(gates) = 3 => result.StatusCode = 500
       /\ Len(gates) = 4 => IsFailure(400, "Invalid mutualFundID")

C10_Witness ==
  /\ Done
  /\ HasIntegerID
  /\ request.start = D_1_1_2023
  /\ request.end = D_29_02_2023
  /\ gates = <<"Parser", "RangeValidation">>
  /\ upstream = NoOutcome
  /\ IsFailure(400, "invalid start date format. use dd-mm-yyyy")

====
